---- MODULE Spec2Model ----
(***************************************************************************)
(* A model of vectorious' Vector (src/vector.js): the heap of typed        *)
(* arrays and Vector objects, the instance and static operations, the      *)
(* constructors, and the nblas kernels the operations dispatch to.         *)
(***************************************************************************)
EXTENDS Integers, Sequences, FiniteSets, TLC

\* ------------------------------------------------------------------ bounds
MaxElems == 3
MaxCalls == 2
MaxRange == 2
MaxShared == 2

\* ------------------------------------------------------------ element types
Float64Array == "Float64Array"
Float32Array == "Float32Array"
Uint8Array == "Uint8Array"
Types == {Float64Array, Float32Array, Uint8Array}

BytesPerElement(t) ==
  IF t = Float64Array THEN 8 ELSE IF t = Float32Array THEN 4 ELSE 1

\* ------------------------------------------------------------ JS numbers
\* A JS Number is a record of one shape: k is its kind.
\*   "int"   the integer n
\*   "nan"   NaN;  "inf"  n * Infinity (n is 1 or -1)
\*   "rat"   n * fl(a / b), b > 1, not simplified: the product as the code forms it
\*   "rsqrt" n * fl(1 / sqrt(b)), b no perfect square
\*   "sqrt"  sqrt(b), b no perfect square;  "acos"  Math.acos of a quotient
\* w is 32 for a value rounded to single precision, 64 for double, 0 for exact.
Num(k, n, a, b, w) == [k |-> k, n |-> n, a |-> a, b |-> b, w |-> w]
NumInt(v) == Num("int", v, 0, 0, 0)
NaN == Num("nan", 0, 0, 0, 0)
Infinity(s) == Num("inf", s, 0, 0, 0)

Abs(x) == IF x < 0 THEN -x ELSE x
Sign(x) == IF x < 0 THEN -1 ELSE IF x > 0 THEN 1 ELSE 0

RECURSIVE Gcd(_, _)
Gcd(x, y) == IF y = 0 THEN x ELSE Gcd(y, x % y)

\* floor(sqrt(x)) for x >= 0
Isqrt(x) == CHOOSE r \in 0..x : r * r <= x /\ (r + 1) * (r + 1) > x

\* x + y
JsAdd(x, y) ==
  CASE x.k = "nan" \/ y.k = "nan" -> NaN
    [] x.k = "inf" /\ y.k = "inf" -> IF x.n = y.n THEN x ELSE NaN
    [] x.k = "inf" /\ y.k = "int" -> x
    [] x.k = "int" /\ y.k = "inf" -> y
    [] x.k = "int" /\ y.k = "int" -> NumInt(x.n + y.n)

\* p / q for integers p, q
JsDiv(p, q) ==
  IF q = 0 THEN (IF p = 0 THEN NaN ELSE Infinity(Sign(p)))
  ELSE IF p % q = 0 THEN NumInt(p \div q)
  ELSE LET g == Gcd(Abs(p), Abs(q))
       IN Num("rat", 1, (Sign(q) * p) \div g, Abs(q) \div g, 64)

\* x * s for an element x and a scalar s
JsMul(x, s) ==
  CASE x.k = "nan" \/ s.k = "nan" -> NaN
    [] x.k = "inf" /\ s.k = "inf" -> Infinity(x.n * s.n)
    [] x.k = "inf" /\ s.k = "int" -> IF s.n = 0 THEN NaN ELSE Infinity(x.n * Sign(s.n))
    [] x.k = "int" /\ s.k = "inf" -> IF x.n = 0 THEN NaN ELSE Infinity(Sign(x.n) * s.n)
    [] x.k = "int" /\ s.k = "int" -> NumInt(x.n * s.n)
    [] x.k = "int" /\ s.k \in {"rat", "rsqrt"} ->
         IF x.n = 0 THEN NumInt(0) ELSE Num(s.k, x.n * s.n, s.a, s.b, s.w)

\* Math.sqrt(s) for an integer s >= 0
JsSqrt(s) ==
  IF Isqrt(s) * Isqrt(s) = s THEN NumInt(Isqrt(s)) ELSE Num("sqrt", 1, 0, s, 64)

\* 1 / m for m = an integer or the square root of one
JsRecip(m) ==
  IF m.k = "int" THEN JsDiv(1, m.n) ELSE Num("rsqrt", 1, 1, m.b, 64)

\* Math.trunc of a finite number
Trunc(x) ==
  CASE x.k = "int" -> x.n
    [] x.k = "rat" -> Sign(x.n * x.a) * (Abs(x.n * x.a) \div x.b)
    [] x.k = "rsqrt" ->
         Sign(x.n) * (CHOOSE m \in 0..Abs(x.n) :
                        m * m * x.b <= x.n * x.n /\ (m + 1) * (m + 1) * x.b > x.n * x.n)
    [] x.k = "sqrt" -> Isqrt(x.b)

\* Math.fround of an integer: round to 24 significant bits, ties to even
RECURSIVE Ulp32(_, _)
Ulp32(m, u) == IF m < 16777216 * u THEN u ELSE Ulp32(m, 2 * u)
Fround(v) ==
  LET m == Abs(v)
      u == Ulp32(m, 1)
      q == m \div u
      r == m % u
      up == 2 * r > u \/ (2 * r = u /\ q % 2 = 1)
  IN Sign(v) * (IF up THEN q + 1 ELSE q) * u

\* The value a typed array of type t holds after x is stored into it.
ToType(t, x) ==
  CASE t = Float64Array -> x
    [] t = Float32Array ->
         IF x.k = "int" THEN NumInt(Fround(x.n))
         ELSE IF x.k \in {"nan", "inf"} THEN x
         ELSE Num(x.k, x.n, x.a, x.b, 32)
    [] t = Uint8Array ->
         IF x.k \in {"nan", "inf"} THEN NumInt(0) ELSE NumInt(Trunc(x) % 256)

\* x < y and x > y and x === y as JS compares numbers
JsLess(x, y) ==
  CASE x.k = "nan" \/ y.k = "nan" -> FALSE
    [] x.k = "inf" /\ y.k = "inf" -> x.n < y.n
    [] x.k = "inf" /\ y.k = "int" -> x.n < 0
    [] x.k = "int" /\ y.k = "inf" -> y.n > 0
    [] x.k = "int" /\ y.k = "int" -> x.n < y.n
JsStrictEq(x, y) == x.k /= "nan" /\ y.k /= "nan" /\ x = y

\* ------------------------------------------------------------------ heap
\* bufs[id] is a typed array, [type, vals]; id 0 stands for `undefined`.
\* vecs[id] is a Vector object, [type, length, data], data a typed array's id.
\* combined is the set of Vector objects combine or push has been called on.
VARIABLES bufs, vecs, last, prev, left, combined
vars == <<bufs, vecs, last, prev, left, combined>>

Heap(b, v) == [b |-> b, v |-> v]
TypedArray(t, vals) == [type |-> t, vals |-> vals]
VectorObj(t, n, d) == [type |-> t, length |-> n, data |-> d]

\* new type(values): a fresh typed array holding the values converted to type
NewTypedArray(h, t, vals) ==
  Heap(Append(h.b, TypedArray(t, [i \in 1..Len(vals) |-> ToType(t, vals[i])])), h.v)

\* the elements a Vector object reads through its data field
Elems(h, id) == IF h.v[id].data = 0 THEN <<>> ELSE h.b[h.v[id].data].vals

\* --------------------------------------------------------- call outcomes
\* What a call returns: a Vector (id), a number (num), a boolean, or nothing.
Ret(k, id, num, bool) == [k |-> k, id |-> id, num |-> num, bool |-> bool]
RetVec(id) == Ret("vec", id, NumInt(0), FALSE)
RetNum(x) == Ret("num", 0, x, FALSE)
RetBool(b) == Ret("bool", 0, NumInt(0), b)
RetNone == Ret("none", 0, NumInt(0), FALSE)

None == "none"
Ok(h, ret) == [h |-> h, threw |-> None, ret |-> ret]
Throw(h, err) == [h |-> h, threw |-> err, ret |-> RetNone]

\* A native routine handed something that is not a typed array of its element
\* type reads memory it does not own: the process may die there.
NativeFault == "native fault"

WriteBuf(h, id, vals) == Heap([h.b EXCEPT ![id].vals = vals], h.v)

\* ------------------------------------------------------------ constructor
\* new Vector(): no data
NewVector(h) ==
  LET id == Len(h.v) + 1
  IN [h |-> Heap(h.b, Append(h.v, VectorObj(Float64Array, 0, 0))), id |-> id]

combine_swapped(h, this, vector) ==
  LET l1 == h.v[this].length
      l2 == h.v[vector].length
      a == Elems(h, this)
      b == Elems(h, vector)
      h1 == NewTypedArray(h, h.v[this].type,
                          [i \in 1..(l1 + l2) |-> IF i <= l2 THEN b[i] ELSE a[i - l2]])
      r == Len(h1.b)
  IN {Ok(Heap(h1.b, [h1.v EXCEPT ![this].data = r, ![this].length = l1 + l2]),
         RetVec(this))}

\* this.combine(vector)
combine(h, this, vector) ==
  LET l1 == h.v[this].length
      l2 == h.v[vector].length
      a == Elems(h, this)
      b == Elems(h, vector)
      h1 == NewTypedArray(h, h.v[this].type,
                          [i \in 1..(l1 + l2) |-> IF i <= l1 THEN a[i] ELSE b[i - l1]])
      r == Len(h1.b)
  IN {Ok(Heap(h1.b, [h1.v EXCEPT ![this].data = r, ![this].length = l1 + l2]),
         RetVec(this))}

\* new Vector(data), data a Vector: type stays Float64Array, then combine(data)
NewVectorFromVector(h, data) ==
  LET n == NewVector(h)
      o == CHOOSE o \in combine(n.h, n.id, data) : TRUE
  IN [h |-> o.h, id |-> n.id]

\* new Vector(data), data an Array of numbers
NewVectorFromArray(h, data) ==
  LET h1 == NewTypedArray(h, Float64Array, data)
  IN [h |-> Heap(h1.b, Append(h1.v, VectorObj(Float64Array, Len(data), Len(h1.b)))),
      id |-> Len(h1.v) + 1]

NewVectorFromTypedArray_copy(h, data) ==
  LET h1 == NewTypedArray(h, h.b[data].type, h.b[data].vals)
  IN [h |-> Heap(h1.b, Append(h1.v, VectorObj(h.b[data].type, Len(h.b[data].vals),
                                              Len(h1.b)))),
      id |-> Len(h.v) + 1]

\* new Vector(data), data a typed array: the Vector aliases it
NewVectorFromTypedArray(h, data) ==
  [h |-> Heap(h.b, Append(h.v, VectorObj(h.b[data].type, Len(h.b[data].vals), data))),
   id |-> Len(h.v) + 1]

\* ------------------------------------------------------------ nblas kernels
\* The values a routine for element type t may read as its n-element operand.
GarbageVals == {NumInt(v) : v \in {-1, 0, 1}}
NativeRead(h, id, t, n) ==
  IF id = 0 THEN {<<>>}
  ELSE IF h.b[id].type = t THEN {SubSeq(h.b[id].vals, 1, n)}
  ELSE [1..n -> GarbageVals]
NativeMayFault(h, id, t, n) ==
  \/ id = 0
  \/ /\ h.b[id].type /= t
     /\ n * BytesPerElement(t) > Len(h.b[id].vals) * BytesPerElement(h.b[id].type)

\* ?axpy(n, alpha, x, 1, y, 1): y[i] += alpha * x[i]; t is the routine's type
axpy(h, t, n, alpha, x, y) ==
  {Ok(WriteBuf(h, y, [i \in 1..n |-> ToType(t, JsAdd(yv[i], JsMul(xv[i], NumInt(alpha))))]),
      RetNone) : xv \in NativeRead(h, x, t, n), yv \in NativeRead(h, y, t, n)}
  \cup (IF NativeMayFault(h, x, t, n) \/ NativeMayFault(h, y, t, n)
        THEN {Throw(h, NativeFault)} ELSE {})

\* ?scal(n, alpha, x, 1): x[i] *= alpha
scal(h, t, n, alpha, x) ==
  (IF x = 0 THEN {Ok(h, RetNone)}
   ELSE {Ok(WriteBuf(h, x, [i \in 1..n |-> ToType(t, JsMul(xv[i], alpha))]), RetNone)
           : xv \in NativeRead(h, x, t, n)})
  \cup (IF NativeMayFault(h, x, t, n) THEN {Throw(h, NativeFault)} ELSE {})

RECURSIVE SumProd(_, _)
SumProd(xs, ys) ==
  IF xs = <<>> THEN 0 ELSE xs[1].n * ys[1].n + SumProd(Tail(xs), Tail(ys))

\* ?dot(n, x, 1, y, 1): the sum of x[i] * y[i]
dotk(h, t, n, x, y) ==
  {Ok(h, RetNum(NumInt(SumProd(xv, yv))))
     : xv \in NativeRead(h, x, t, n), yv \in NativeRead(h, y, t, n)}
  \cup (IF NativeMayFault(h, x, t, n) \/ NativeMayFault(h, y, t, n)
        THEN {Throw(h, NativeFault)} ELSE {})

\* ?nrm2(n, x, 1): the Euclidean norm, in the routine's precision
nrm2(h, t, n, x) ==
  LET xv == SubSeq(h.b[x].vals, 1, n)
      m == JsSqrt(SumProd(xv, xv))
  IN IF m.k = "int" THEN m ELSE Num(m.k, m.n, m.a, m.b, 8 * BytesPerElement(t))

\* i?amax(n, x, 1): the index (from 0) of the first element of greatest magnitude
iamax(xv) ==
  IF xv = <<>> THEN 0
  ELSE (CHOOSE i \in 1..Len(xv) :
          /\ \A j \in 1..Len(xv) : Abs(xv[j].n) <= Abs(xv[i].n)
          /\ \A j \in 1..(i - 1) : Abs(xv[j].n) < Abs(xv[i].n)) - 1

\* ------------------------------------------------------- instance methods
\* Each takes the heap, the receiver `this` and its arguments, and gives the set
\* of outcomes the call can have (one, unless a native routine reads memory that
\* is not its operand's).
IsAccelerated(t) == t \in {Float64Array, Float32Array}

\* the portable loop of add: this.data[i] += vector.data[i]
addLoop(h, this, vector) ==
  LET a == Elems(h, this)
      b == Elems(h, vector)
      t == h.v[this].type
  IN WriteBuf(h, h.v[this].data,
              [i \in 1..Len(a) |->
                 IF i <= h.v[this].length THEN ToType(t, JsAdd(a[i], b[i])) ELSE a[i]])

\* Vector.prototype.add
add(h, this, vector) ==
  LET T == h.v[this]
      V == h.v[vector]
  IN IF T.length /= V.length THEN {Throw(h, "sizes do not match!")}
     ELSE IF T.length = 0 /\ V.length = 0 THEN {Ok(h, RetVec(this))}
     ELSE IF IsAccelerated(T.type)
       THEN {IF o.threw = None THEN Ok(o.h, RetVec(this)) ELSE o
               : o \in axpy(h, T.type, T.length, 1, V.data, T.data)}
     ELSE {Ok(addLoop(h, this, vector), RetVec(this))}

\* the portable loop of subtract: this.data[i] += vector.data[i]
subtractLoop(h, this, vector) ==
  LET a == Elems(h, this)
      b == Elems(h, vector)
      t == h.v[this].type
  IN WriteBuf(h, h.v[this].data,
              [i \in 1..Len(a) |->
                 IF i <= h.v[this].length THEN ToType(t, JsAdd(a[i], b[i])) ELSE a[i]])

\* Vector.prototype.subtract
subtract(h, this, vector) ==
  LET T == h.v[this]
      V == h.v[vector]
  IN IF T.length /= V.length THEN {Throw(h, "sizes do not match")}
     ELSE IF T.length = 0 /\ V.length = 0 THEN {Ok(h, RetVec(this))}
     ELSE IF IsAccelerated(T.type)
       THEN {IF o.threw = None THEN Ok(o.h, RetVec(this)) ELSE o
               : o \in axpy(h, T.type, T.length, -1, V.data, T.data)}
     ELSE {Ok(subtractLoop(h, this, vector), RetVec(this))}

\* Vector.prototype.scale; scalar is a JS number
scale(h, this, scalar) ==
  LET T == h.v[this]
      a == Elems(h, this)
  IN IF IsAccelerated(T.type)
       THEN {IF o.threw = None THEN Ok(o.h, RetVec(this)) ELSE o
               : o \in scal(h, T.type, T.length, scalar, T.data)}
     ELSE {Ok(WriteBuf(h, T.data,
                       [i \in 1..Len(a) |->
                          IF i <= T.length THEN ToType(T.type, JsMul(a[i], scalar)) ELSE a[i]]),
              RetVec(this))}

\* Vector.prototype.magnitude
magnitude(h, this) ==
  LET T == h.v[this]
      a == SubSeq(Elems(h, this), 1, T.length)
  IN IF T.length = 0 THEN NumInt(0)
     ELSE IF IsAccelerated(T.type) THEN nrm2(h, T.type, T.length, T.data)
     ELSE JsSqrt(SumProd(a, a))

\* Vector.prototype.normalize
normalize(h, this) == scale(h, this, JsRecip(magnitude(h, this)))

\* Vector.prototype.dot
dot(h, this, vector) ==
  LET T == h.v[this]
      V == h.v[vector]
      a == Elems(h, this)
      b == Elems(h, vector)
  IN IF T.length /= V.length THEN {Throw(h, "sizes do not match")}
     ELSE IF IsAccelerated(T.type) THEN dotk(h, T.type, T.length, T.data, V.data)
     ELSE {Ok(h, RetNum(NumInt(SumProd(SubSeq(a, 1, T.length), SubSeq(b, 1, T.length)))))}

\* Vector.prototype.project: vector.scale(this.dot(vector) / vector.dot(vector))
project(h, this, vector) ==
  UNION {IF p.threw /= None THEN {p}
         ELSE UNION {IF q.threw /= None THEN {q}
                     ELSE scale(h, vector, JsDiv(p.ret.num.n, q.ret.num.n))
                       : q \in dot(h, vector, vector)}
           : p \in dot(h, this, vector)}

\* Vector.prototype.angle:
\* Math.acos(this.dot(vector) / this.magnitude() * vector.magnitude())
angle(h, this, vector) ==
  {IF p.threw /= None THEN p
   ELSE Ok(h, RetNum(Num("acos", p.ret.num.n,
                         SumProd(Elems(h, this), Elems(h, this)),
                         SumProd(Elems(h, vector), Elems(h, vector)), 64)))
     : p \in dot(h, this, vector)}

\* Vector.prototype.equals
equals(h, this, vector) ==
  LET a == Elems(h, this)
      b == Elems(h, vector)
      l == h.v[this].length
  IN IF l /= h.v[vector].length THEN {Ok(h, RetBool(FALSE))}
     ELSE {Ok(h, RetBool(\A i \in 1..l : JsStrictEq(a[i], b[i])))}

\* Vector.prototype.get; index is an integer, elements are numbered from 0
get(h, this, index) ==
  IF index < 0 \/ index > h.v[this].length - 1 THEN {Throw(h, "index out of bounds")}
  ELSE {Ok(h, RetNum(Elems(h, this)[index + 1]))}

set_offByOne(h, this, index, value) ==
  IF index < 0 \/ index > h.v[this].length THEN {Throw(h, "index out of bounds")}
  ELSE IF h.v[this].data = 0 THEN {Throw(h, "TypeError")}
  ELSE {Ok(WriteBuf(h, h.v[this].data,
                    [i \in 1..Len(Elems(h, this)) |->
                       IF i = index + 1 THEN ToType(h.v[this].type, value)
                       ELSE Elems(h, this)[i]]),
           RetVec(this))}

\* Vector.prototype.set
set(h, this, index, value) ==
  IF index < 0 \/ index > h.v[this].length - 1 THEN {Throw(h, "index out of bounds")}
  ELSE {Ok(WriteBuf(h, h.v[this].data,
                    [Elems(h, this) EXCEPT ![index + 1] = ToType(h.v[this].type, value)]),
           RetVec(this))}

\* the linear scans of min and max over the first l elements
RECURSIVE scanMin(_, _, _)
scanMin(values, i, m) ==
  IF i > Len(values) THEN m
  ELSE scanMin(values, i + 1, IF JsLess(values[i], m) THEN values[i] ELSE m)
RECURSIVE scanMax(_, _, _)
scanMax(values, i, m) ==
  IF i > Len(values) THEN m
  ELSE scanMax(values, i + 1, IF JsLess(m, values[i]) THEN values[i] ELSE m)

\* Vector.prototype.min
min(h, this) ==
  IF h.v[this].data = 0 THEN {Throw(h, "TypeError")}
  ELSE {Ok(h, RetNum(scanMin(Elems(h, this), 1, Infinity(1))))}

\* Vector.prototype.max
max(h, this) ==
  LET T == h.v[this]
      a == Elems(h, this)
  IN IF IsAccelerated(T.type)
       THEN IF T.data = 0 THEN {Throw(h, NativeFault), Throw(h, "TypeError")}
            ELSE IF a = <<>> THEN {Ok(h, RetNone)}
            ELSE {Ok(h, RetNum(a[iamax(SubSeq(a, 1, T.length)) + 1]))}
     ELSE {Ok(h, RetNum(scanMax(SubSeq(a, 1, T.length), 1, Infinity(-1))))}

\* Vector.prototype.push
push(h, this, value) ==
  LET n == NewVectorFromArray(h, <<value>>)
  IN combine(n.h, this, n.id)

\* The callbacks handed to map: what each returns for an element, or that it throws.
Callbacks == {"negate", "increment", "failOnZero"}
callback(f, x) ==
  CASE f = "negate" -> [threw |-> FALSE, val |-> JsMul(x, NumInt(-1))]
    [] f = "increment" -> [threw |-> FALSE, val |-> JsAdd(x, NumInt(1))]
    [] f = "failOnZero" -> [threw |-> x = NumInt(0), val |-> x]

\* the loop of map from element i: this.data[i] = callback(this.data[i])
RECURSIVE mapLoop(_, _, _, _, _)
mapLoop(vals, t, i, l, f) ==
  IF i > l THEN [vals |-> vals, threw |-> None]
  ELSE LET r == callback(f, vals[i])
       IN IF r.threw THEN [vals |-> vals, threw |-> "callback error"]
          ELSE mapLoop([vals EXCEPT ![i] = ToType(t, r.val)], t, i + 1, l, f)

\* Vector.prototype.map
map(h, this, f) ==
  LET T == h.v[this]
      r == mapLoop(Elems(h, this), T.type, 1, T.length, f)
      h1 == WriteBuf(h, T.data, r.vals)
  IN IF T.length = 0 THEN {Ok(h, RetVec(this))}
     ELSE IF r.threw = None THEN {Ok(h1, RetVec(this))}
     ELSE {Throw(h1, r.threw)}

\* --------------------------------------------------------- static methods
Vector_add_noCopy(h, a, b) == add(h, a, b)

\* Vector.add
Vector_add(h, a, b) ==
  LET n == NewVectorFromVector(h, a) IN add(n.h, n.id, b)

\* Vector.subtract
Vector_subtract(h, a, b) ==
  LET n == NewVectorFromVector(h, a) IN subtract(n.h, n.id, b)

\* Vector.scale
Vector_scale(h, vector, scalar) ==
  LET n == NewVectorFromVector(h, vector) IN scale(n.h, n.id, scalar)

\* Vector.normalize
Vector_normalize(h, vector) ==
  LET n == NewVectorFromVector(h, vector) IN normalize(n.h, n.id)

Vector_project_noCopy(h, a, b) == project(h, a, b)

\* Vector.project
Vector_project(h, a, b) ==
  LET n == NewVectorFromVector(h, b) IN project(n.h, a, n.id)

\* Vector.combine
Vector_combine(h, a, b) ==
  LET n == NewVectorFromVector(h, a) IN combine(n.h, n.id, b)

\* Vector.dot, Vector.angle, Vector.equals
Vector_dot(h, a, b) == dot(h, a, b)
Vector_angle(h, a, b) == angle(h, a, b)
Vector_equals(h, a, b) == equals(h, a, b)

\* ------------------------------------------------------------ constructors
\* An optional `type` argument: a typed array constructor, or none given.
NoType == "undefined"

\* Vector.zeros and Vector.ones share their shape; fill is 0 or 1.
\* count is a JS number: an integer, NaN or Infinity.
filled(h, count, type, fill) ==
  IF JsLess(count, NumInt(0)) THEN Throw(h, "invalid size")
  ELSE IF JsStrictEq(count, NumInt(0)) THEN
    LET n == NewVector(h) IN Ok(n.h, RetVec(n.id))
  ELSE IF count.k = "inf" THEN Throw(h, "RangeError")
  ELSE
    LET t == IF type = NoType THEN Float64Array ELSE type
        len == IF count.k = "nan" THEN 0 ELSE count.n
        h1 == NewTypedArray(h, t, [i \in 1..len |-> NumInt(fill)])
        n == NewVectorFromTypedArray(h1, Len(h1.b))
    IN Ok(n.h, RetVec(n.id))

\* Vector.zeros
zeros(h, count, type) == filled(h, count, type, 0)

\* Vector.ones
ones(h, count, type) == filled(h, count, type, 1)

\* Math.ceil(d / step) for integers d >= 0 and step
CeilDiv(d, step) ==
  IF step = 0 THEN (IF d = 0 THEN NaN ELSE Infinity(1))
  ELSE IF step > 0 THEN NumInt((d + step - 1) \div step)
  ELSE NumInt(-(d \div (-step)))

\* backwards ? end - i + start : i
rangeValue_forwards(i, start, end, backwards) == i
rangeValue(i, start, end, backwards) == IF backwards THEN end - i + start ELSE i

\* the loop of Vector.range: for (i = start, j = 0; i < end; i += step, j++)
\*   vector.data[j] = backwards ? end - i + start : i
\* over the values of vector.data (a store past its end is dropped)
RECURSIVE rangeLoop(_, _, _, _, _, _, _, _)
rangeLoop(vals, t, i, j, start, step, end, backwards) ==
  IF ~(i < end) THEN vals
  ELSE rangeLoop(IF j < Len(vals)
                   THEN [vals EXCEPT ![j + 1] =
                           ToType(t, NumInt(rangeValue(i, start, end, backwards)))]
                   ELSE vals,
                 t, i + step, j + 1, start, step, end, backwards)

\* Vector.range; args are the numeric arguments, type the trailing constructor
range(h, args, type) ==
  LET t == IF type = NoType THEN Float64Array ELSE type
  IN IF Len(args) \notin {2, 3} THEN Throw(h, "invalid range")
     ELSE
       LET end0 == args[Len(args)]
           step == IF Len(args) = 2 THEN 1 ELSE args[2]
           start0 == args[1]
           backwards == end0 - start0 < 0
           start == IF backwards THEN end0 ELSE start0
           end == IF backwards THEN start0 ELSE end0
       IN IF step > end - start THEN Throw(h, "invalid range")
          ELSE
            LET z == zeros(h, CeilDiv(end - start, step), t)
            IN IF z.threw /= None THEN z
               ELSE IF z.h.v[z.ret.id].data = 0
                 THEN (IF start < end THEN Throw(h, "TypeError") ELSE z)
               ELSE
                 LET d == z.h.v[z.ret.id].data
                 IN Ok(WriteBuf(z.h, d,
                                rangeLoop(z.h.b[d].vals, t, start, 0, start, step, end,
                                          backwards)),
                       z.ret)

\* ------------------------------------------------------------ module load
\* var nblas = require('nblas'): with nblas not installed require throws, nothing
\* catches it, and module.exports is never assigned.
ModuleLoads(nblasInstalled) == nblasInstalled

\* What a call throws (None: it returns) given what the code throws once loaded.
ThrewWith(threw, nblasInstalled) ==
  IF ModuleLoads(nblasInstalled) THEN threw ELSE "Cannot find module 'nblas'"

\* ------------------------------------------------------------------ state
\* last is the latest call: its operation, form ("instance", "static"), receiver
\* or first argument (recv), Vector argument (arg), numeric arguments (nums),
\* type argument (ty), what it threw with nblas installed (threw) and would throw
\* without it (absent), what it returned (ret) and the heap before it (pre).
\* prev is the call before it. left counts the calls still to be made.
H0 == Heap(<<>>, <<>>)
NoCall ==
  [op |-> None, form |-> None, recv |-> 0, arg |-> 0, nums |-> <<>>, ty |-> NoType,
   threw |-> None, absent |-> None, ret |-> RetNone, pre |-> H0]

\* The numbers the inputs are drawn from, and the elements the typed arrays hold
\* between them before the first call.
Vals == {-1, 0, 1}
RECURSIVE Used(_)
Used(h) == IF h.b = <<>> THEN 0 ELSE Len(h.b[1].vals) + Used(Heap(Tail(h.b), h.v))
Arrays(maxLen) == UNION {[1..n -> {NumInt(v) : v \in Vals}] : n \in 0..maxLen}

\* The heaps one more `new Vector(...)` leads to: no data, a fresh typed array
\* made from an array of numbers, or a typed array some Vector already holds.
Construct(h) ==
  {NewVector(h).h}
  \cup {NewVectorFromTypedArray(NewTypedArray(h, t, c), Len(h.b) + 1).h
          : t \in Types, c \in Arrays(MaxElems - Used(h))}
  \cup {NewVectorFromTypedArray(h, d).h : d \in 1..Len(h.b)}

\* Two Vectors have been constructed.
InitHeap == \E h1 \in Construct(H0) : \E h \in Construct(h1) : bufs = h.b /\ vecs = h.v

Init ==
  /\ InitHeap
  /\ last = NoCall /\ prev = NoCall
  /\ left = 1
  /\ combined = {}

Cur == Heap(bufs, vecs)
VecIds == 1..Len(vecs)

\* One call: any of its outcomes becomes the new state.
Call(op, form, recv, arg, nums, ty, outcomes) ==
  /\ left > 0
  /\ \E o \in outcomes :
       /\ bufs' = o.h.b
       /\ vecs' = o.h.v
       /\ last' = [op |-> op, form |-> form, recv |-> recv, arg |-> arg, nums |-> nums,
                   ty |-> ty, threw |-> ThrewWith(o.threw, TRUE),
                   absent |-> ThrewWith(o.threw, FALSE), ret |-> o.ret, pre |-> Cur]
  /\ prev' = last
  /\ left' = left - 1
  /\ combined' = IF form = "instance" /\ op \in {"combine", "push"}
                   THEN combined \cup {recv} ELSE combined

Indices == -1..MaxElems

CallAdd == \E x, y \in VecIds : Call("add", "instance", x, y, <<>>, NoType, add(Cur, x, y))
CallSubtract ==
  \E x, y \in VecIds : Call("subtract", "instance", x, y, <<>>, NoType, subtract(Cur, x, y))
CallScale ==
  \E x \in VecIds, k \in Vals :
    Call("scale", "instance", x, 0, <<k>>, NoType, scale(Cur, x, NumInt(k)))
CallNormalize ==
  \E x \in VecIds : Call("normalize", "instance", x, 0, <<>>, NoType, normalize(Cur, x))
CallProject ==
  \E x, y \in VecIds : Call("project", "instance", x, y, <<>>, NoType, project(Cur, x, y))
CallDot == \E x, y \in VecIds : Call("dot", "instance", x, y, <<>>, NoType, dot(Cur, x, y))
CallMagnitude ==
  \E x \in VecIds :
    Call("magnitude", "instance", x, 0, <<>>, NoType, {Ok(Cur, RetNum(magnitude(Cur, x)))})
CallAngle ==
  \E x, y \in VecIds : Call("angle", "instance", x, y, <<>>, NoType, angle(Cur, x, y))
CallEquals ==
  \E x, y \in VecIds : Call("equals", "instance", x, y, <<>>, NoType, equals(Cur, x, y))
CallGet ==
  \E x \in VecIds, i \in Indices : Call("get", "instance", x, 0, <<i>>, NoType, get(Cur, x, i))
CallSet ==
  \E x \in VecIds, i \in Indices, v \in Vals :
    Call("set", "instance", x, 0, <<i, v>>, NoType, set(Cur, x, i, NumInt(v)))
CallMin == \E x \in VecIds : Call("min", "instance", x, 0, <<>>, NoType, min(Cur, x))
CallMax == \E x \in VecIds : Call("max", "instance", x, 0, <<>>, NoType, max(Cur, x))
CallCombine ==
  \E x, y \in VecIds : Call("combine", "instance", x, y, <<>>, NoType, combine(Cur, x, y))
CallPush ==
  \E x \in VecIds, v \in Vals :
    Call("push", "instance", x, 0, <<v>>, NoType, push(Cur, x, NumInt(v)))

CallVectorAdd ==
  \E x, y \in VecIds : Call("add", "static", x, y, <<>>, NoType, Vector_add(Cur, x, y))
CallVectorSubtract ==
  \E x, y \in VecIds :
    Call("subtract", "static", x, y, <<>>, NoType, Vector_subtract(Cur, x, y))
CallVectorScale ==
  \E x \in VecIds, k \in Vals :
    Call("scale", "static", x, 0, <<k>>, NoType, Vector_scale(Cur, x, NumInt(k)))
CallVectorNormalize ==
  \E x \in VecIds : Call("normalize", "static", x, 0, <<>>, NoType, Vector_normalize(Cur, x))
CallVectorProject ==
  \E x, y \in VecIds : Call("project", "static", x, y, <<>>, NoType, Vector_project(Cur, x, y))
CallVectorCombine ==
  \E x, y \in VecIds : Call("combine", "static", x, y, <<>>, NoType, Vector_combine(Cur, x, y))
CallVectorDot ==
  \E x, y \in VecIds : Call("dot", "static", x, y, <<>>, NoType, Vector_dot(Cur, x, y))
CallVectorAngle ==
  \E x, y \in VecIds : Call("angle", "static", x, y, <<>>, NoType, Vector_angle(Cur, x, y))
CallVectorEquals ==
  \E x, y \in VecIds : Call("equals", "static", x, y, <<>>, NoType, Vector_equals(Cur, x, y))

Next ==
  \/ CallAdd \/ CallSubtract \/ CallScale \/ CallNormalize \/ CallProject
  \/ CallDot \/ CallMagnitude \/ CallAngle \/ CallEquals \/ CallGet \/ CallSet
  \/ CallMin \/ CallMax \/ CallCombine \/ CallPush
  \/ CallVectorAdd \/ CallVectorSubtract \/ CallVectorScale \/ CallVectorNormalize
  \/ CallVectorProject \/ CallVectorCombine \/ CallVectorDot \/ CallVectorAngle
  \/ CallVectorEquals

\* One call of any operation on any two Vectors.
Spec == Init /\ [][Next]_vars

\* Up to MaxCalls calls of the in-place arithmetic on any two Vectors.
InitSeq ==
  /\ InitHeap
  /\ last = NoCall /\ prev = NoCall
  /\ left = MaxCalls
  /\ combined = {}
NextSeq == CallAdd \/ CallSubtract
SpecSeq == InitSeq /\ [][NextSeq]_vars

\* One call of a constructor function, from the heap the loaded module starts with.
TypeArgs == Types \cup {NoType}
RangeArgs(maxArgs) == UNION {[1..n -> -MaxRange..MaxRange] : n \in 0..maxArgs}
CallZeros ==
  \E c \in -1..MaxElems, t \in TypeArgs :
    Call("zeros", "static", 0, 0, <<c>>, t, {zeros(Cur, NumInt(c), t)})
CallOnes ==
  \E c \in -1..MaxElems, t \in TypeArgs :
    Call("ones", "static", 0, 0, <<c>>, t, {ones(Cur, NumInt(c), t)})
CallRange ==
  \E a \in RangeArgs(3), t \in TypeArgs :
    Call("range", "static", 0, 0, a, t, {range(Cur, a, t)})
InitCtor ==
  /\ bufs = <<>> /\ vecs = <<>>
  /\ last = NoCall /\ prev = NoCall
  /\ left = 1
  /\ combined = {}
NextCtor == CallZeros \/ CallOnes \/ CallRange
SpecCtor == InitCtor /\ [][NextCtor]_vars

\* Up to MaxCalls calls on two Vectors made from one typed array of up to
\* MaxShared elements, with a third Vector made from the first of them:
\* new Vector(ta), new Vector(ta), new Vector(first).
Shared == 1
Views == {1, 2}
Copy == 3
InitAlias ==
  /\ \E t \in Types, c \in Arrays(MaxShared) :
       LET ta == NewTypedArray(H0, t, c)
           a == NewVectorFromTypedArray(ta, Shared)
           b == NewVectorFromTypedArray(a.h, Shared)
           d == NewVectorFromVector(b.h, a.id)
       IN bufs = d.h.b /\ vecs = d.h.v
  /\ last = NoCall /\ prev = NoCall
  /\ left = MaxCalls
  /\ combined = {}

\* One call through one of the two Vectors made from the typed array, of which
\* only the operation, the receiver and the outcome are kept.
Through(op, recv, outcomes) ==
  /\ left > 0
  /\ \E o \in outcomes :
       /\ bufs' = o.h.b
       /\ vecs' = o.h.v
       /\ last' = [NoCall EXCEPT !.op = op, !.form = "instance", !.recv = recv,
                                 !.threw = ThrewWith(o.threw, TRUE),
                                 !.absent = ThrewWith(o.threw, FALSE)]
  /\ prev' = prev
  /\ left' = left - 1
  /\ combined' = IF op \in {"combine", "push"} THEN combined \cup {recv} ELSE combined

ThroughSet ==
  \E x \in Views, i \in Indices, v \in Vals : Through("set", x, set(Cur, x, i, NumInt(v)))
ThroughAdd == \E x, y \in Views : Through("add", x, add(Cur, x, y))
ThroughSubtract == \E x, y \in Views : Through("subtract", x, subtract(Cur, x, y))
ThroughScale == \E x \in Views, k \in Vals : Through("scale", x, scale(Cur, x, NumInt(k)))
ThroughMap == \E x \in Views, f \in Callbacks : Through("map", x, map(Cur, x, f))
ThroughCombine == \E x, y \in Views : Through("combine", x, combine(Cur, x, y))
ThroughPush == \E x \in Views : Through("push", x, push(Cur, x, NumInt(1)))
NextAlias ==
  \/ ThroughSet \/ ThroughAdd \/ ThroughSubtract \/ ThroughScale \/ ThroughMap
  \/ ThroughCombine \/ ThroughPush
SpecAlias == InitAlias /\ [][NextAlias]_vars

\* ------------------------------------------------------------ properties
PreVecs == 1..Len(last.pre.v)
PreBufs == 1..Len(last.pre.b)
\* every Vector object and every typed array that existed before the latest call
\* is what it was: same type, length, buffer identity and elements
ObjectsUnchanged == \A v \in PreVecs : vecs[v] = last.pre.v[v]
BuffersUnchanged == \A b \in PreBufs : bufs[b] = last.pre.b[b]
PreElems(id) == Elems(last.pre, id)
PreType(id) == last.pre.v[id].type
PreLength(id) == last.pre.v[id].length
Returned == last.threw = None

\* C1: a.add(b) followed by a.subtract(b), for a and b of one element type and
\* equal length that share no buffer, leaves a with its original elements.
C1_AddThenSubtractRestores ==
  (/\ prev.op = "add" /\ prev.form = "instance" /\ prev.threw = None
   /\ last.op = "subtract" /\ last.form = "instance" /\ last.threw = None
   /\ last.recv = prev.recv /\ last.arg = prev.arg
   /\ prev.pre.v[prev.recv].type = prev.pre.v[prev.arg].type
   /\ prev.pre.v[prev.recv].data /= prev.pre.v[prev.arg].data)
  => Elems(Cur, last.recv) = Elems(prev.pre, prev.recv)

\* C2: a static form leaves every Vector and typed array that existed before the
\* call as it was (elements, length, buffer identity), also when both arguments
\* are one Vector, and a Vector it returns is a new object on a new buffer.
StaticForms ==
  {"add", "subtract", "scale", "normalize", "project", "combine", "dot", "angle", "equals"}
C2_StaticFormsDoNotMutate ==
  (last.form = "static" /\ last.op \in StaticForms)
  => /\ ObjectsUnchanged
     /\ BuffersUnchanged
     /\ (Returned /\ last.ret.k = "vec")
          => /\ last.ret.id \notin PreVecs
             /\ vecs[last.ret.id].data \notin PreBufs \cup {0}
C2_Witness ==
  /\ last.form = "static" /\ last.op = "add" /\ Returned
  /\ last.recv = last.arg
  /\ PreLength(last.recv) > 0
  /\ Elems(Cur, last.ret.id) /= PreElems(last.recv)

\* C3: add, subtract and combine, in either form, return a Vector whose element
\* type is the receiver's (the first argument's, in the static form).
C3_ResultTypeIsReceivers ==
  (last.op \in {"add", "subtract", "combine"} /\ Returned)
  => /\ vecs[last.ret.id].type = PreType(last.recv)
     /\ vecs[last.ret.id].data /= 0 => bufs[vecs[last.ret.id].data].type = PreType(last.recv)

\* C4: on Float64Array and Float32Array Vectors each of add, subtract, scale,
\* dot, magnitude, max and normalize succeeds without nblas exactly when it
\* succeeds with it.
C4_SameOutcomeWithoutNblas ==
  (/\ last.op \in {"add", "subtract", "scale", "dot", "magnitude", "max", "normalize"}
   /\ last.form = "instance"
   /\ IsAccelerated(PreType(last.recv))
   /\ last.arg /= 0 => IsAccelerated(PreType(last.arg)))
  => ((last.threw = None) <=> (last.absent = None))

\* C5: add, subtract and dot on operands of different lengths throw, get and set
\* at an index outside [0, length) throw, and a call of these that throws leaves
\* every Vector and typed array as it was.
C5_FailuresPrecedeMutation ==
  /\ (last.op \in {"add", "subtract", "dot"} /\ PreLength(last.recv) /= PreLength(last.arg))
       => last.threw \in {"sizes do not match", "sizes do not match!"}
  /\ (last.op \in {"get", "set"}
      /\ (last.nums[1] < 0 \/ last.nums[1] >= PreLength(last.recv)))
       => last.threw = "index out of bounds"
  /\ (last.op \in {"add", "subtract", "dot", "get", "set"} /\ ~Returned)
       => ObjectsUnchanged /\ BuffersUnchanged
C5_Witness ==
  /\ last.op = "set" /\ ~Returned
  /\ PreLength(last.recv) > 0
  /\ last.nums[1] = PreLength(last.recv)

\* C6: Vector.range with fewer than 2 numeric arguments, or with
\* |step| > |end - start|, throws 'invalid range'.
RangeStart == last.nums[1]
RangeEnd == last.nums[Len(last.nums)]
RangeStep == IF Len(last.nums) = 2 THEN 1 ELSE last.nums[2]
C6_RangeRejectsLargeStep ==
  (/\ last.op = "range"
   /\ \/ Len(last.nums) < 2
      \/ Abs(RangeStep) > Abs(RangeEnd - RangeStart))
  => last.threw = "invalid range"

\* C7: for 1 <= step <= |end - start|, Vector.range(start, step, end) returns a
\* Vector of ceil(|end - start| / step) elements, the k-th being start + k * step
\* when end > start and start - k * step when end < start.
C7_RangeElements ==
  (/\ last.op = "range" /\ Len(last.nums) = 3
   /\ last.ty \in {NoType, Float64Array, Float32Array}
   /\ 1 <= RangeStep /\ RangeStep <= Abs(RangeEnd - RangeStart))
  => /\ Returned /\ last.ret.k = "vec"
     /\ LET n == (Abs(RangeEnd - RangeStart) + RangeStep - 1) \div RangeStep
            e == Elems(Cur, last.ret.id)
        IN /\ vecs[last.ret.id].length = n
           /\ Len(e) = n
           /\ \A k \in 0..(n - 1) :
                e[k + 1] = NumInt(IF RangeEnd > RangeStart
                                    THEN RangeStart + k * RangeStep
                                    ELSE RangeStart - k * RangeStep)
C7_Witness ==
  /\ last.op = "range" /\ last.nums = <<2, 1, 0>> /\ last.ty = NoType
  /\ Returned
  /\ Elems(Cur, last.ret.id) = <<NumInt(2), NumInt(1)>>

\* C8 as stated: after a.combine(b), a holds its former elements followed by b's
\* elements, on a new buffer; b and the old buffer are as they were.
CombineFrame ==
  /\ Returned /\ last.ret = RetVec(last.recv)
  /\ vecs[last.recv].length = PreLength(last.recv) + PreLength(last.arg)
  /\ vecs[last.recv].type = PreType(last.recv)
  /\ vecs[last.recv].data \notin PreBufs \cup {0}
  /\ bufs[vecs[last.recv].data].type = PreType(last.recv)
  /\ \A v \in PreVecs \ {last.recv} : vecs[v] = last.pre.v[v]
  /\ BuffersUnchanged
C8_CombineAppendsArgument ==
  (last.op = "combine" /\ last.form = "instance")
  => /\ CombineFrame
     /\ Elems(Cur, last.recv) = PreElems(last.recv) \o PreElems(last.arg)

\* C8, amended: the elements appended are b's converted to a's element type, which
\* are b's own elements when the two Vectors have one element type.
C8_CombineAppendsConverted ==
  (last.op = "combine" /\ last.form = "instance")
  => /\ CombineFrame
     /\ Elems(Cur, last.recv) =
          PreElems(last.recv)
            \o [i \in 1..PreLength(last.arg) |->
                  ToType(PreType(last.recv), PreElems(last.arg)[i])]
     /\ PreType(last.recv) = PreType(last.arg)
          => Elems(Cur, last.recv) = PreElems(last.recv) \o PreElems(last.arg)
C8_Witness ==
  /\ last.op = "combine" /\ last.form = "instance" /\ Returned
  /\ last.recv /= last.arg
  /\ PreType(last.recv) = Uint8Array /\ PreType(last.arg) = Float64Array
  /\ PreLength(last.recv) = 1 /\ PreLength(last.arg) = 2
  /\ Elems(Cur, last.recv) /= PreElems(last.recv) \o PreElems(last.arg)

Projection(a, b, t) ==
  [i \in 1..Len(b) |-> ToType(t, JsMul(b[i], JsDiv(SumProd(a, b), SumProd(b, b))))]

C10_MaxIsLargest ==
  (last.op = "max" /\ PreLength(last.recv) > 0 /\ Returned)
  => /\ last.ret.k = "num"
     /\ \E i \in 1..PreLength(last.recv) : PreElems(last.recv)[i] = last.ret.num
     /\ \A i \in 1..PreLength(last.recv) : ~JsLess(last.ret.num, PreElems(last.recv)[i])

\* C11: two Vectors constructed from the same typed array hold that very array,
\* so as long as combine or push has been called on neither, get(i) gives the
\* same outcome through both for every index i, whatever in-place calls (set,
\* add, subtract, scale, map) were made through either; a Vector constructed
\* from another Vector holds a buffer of its own, and no call made through the
\* other two changes the elements it reads.
ViewsAgree ==
  (Views \cap combined = {})
    => /\ \A x \in Views : vecs[x].data = Shared
       /\ \A x, y \in Views : \A i \in Indices : get(Cur, x, i) = get(Cur, y, i)
CopyOwnsBuffer == vecs[Copy].data \notin {Shared} \cup {vecs[x].data : x \in Views}
CopyUnchanged ==
  /\ vecs'[Copy] = vecs[Copy]
  /\ Elems(Heap(bufs', vecs'), Copy) = Elems(Cur, Copy)
C11_ViewsAliasCopyDoesNot == [](ViewsAgree /\ CopyOwnsBuffer) /\ [][CopyUnchanged]_vars
C11_Witness ==
  /\ last.op = "set" /\ last.threw = None
  /\ Views \cap combined = {}
  /\ \E y \in Views \ {last.recv} : \E i \in 0..(vecs[y].length - 1) :
       get(Cur, y, i) /= get(Cur, Copy, i)

====
